---- MODULE Spec2Model ----
(***************************************************************************)
(* A model of src/drone_firmware/main.py: class DroneLightShow.            *)
(*                                                                         *)
(* Two flows of control share one MAVLink transport (self.master):         *)
(*   - the orchestrator flow, the caller's thread running execute_show,    *)
(*     which calls upload_mission, starts the LED thread and sends         *)
(*     MAV_CMD_MISSION_START;                                              *)
(*   - the scheduler flow, the daemon thread running                       *)
(*     led_controller_thread, which calls control_rgb_leds per event.      *)
(*                                                                         *)
(* Time is in integer milliseconds.  A brightness is the rational          *)
(* num/den, so that int(c * brightness) is computed exactly.  A send on    *)
(* the transport is two steps (the call begins, the call returns or        *)
(* raises): the source takes no lock around a send.                        *)
(***************************************************************************)
EXTENDS Integers, Sequences, FiniteSets

(***************************************************************************)
(* Bounds of the model.                                                    *)
(***************************************************************************)
MaxWaypoints == 2      \* longest waypoint list of a mission file
MaxEvents == 2         \* longest lightingSequence of a mission file
MaxFailures == 1       \* send calls that may raise in one run
MaxTime == 1000        \* the clock stops at this time (ms) unless a thread is asleep
MaxDen == 3            \* largest denominator of a brightness swept by SpecMap
TickMs == 250          \* granularity of the modelled clock, in ms

(***************************************************************************)
(* Program constants.                                                      *)
(***************************************************************************)
ServoRed == 9          \* Servo 9 (AUX1) for Red
ServoGreen == 10       \* Servo 10 (AUX2) for Green
ServoBlue == 11        \* Servo 11 (AUX3) for Blue
PwmScale == 4          \* red_pwm * 4 + 1000
PwmOffset == 1000

VARIABLES
    mission_file,       \* the parsed content of the file execute_show is given
    use_interpolation,  \* the argument of execute_show
    current_mission,    \* self.current_mission; NoMission is None
    orch_pc,            \* position of the orchestrator flow
    orch_exc,           \* the exception execute_show raised to its caller
    wp_i,               \* i of `for i, wp in enumerate(waypoints)`
    sched_pc,           \* position of the LED thread
    sched_exc,          \* the exception that ended the LED thread
    ev_i,               \* 1-based index of light_cmd in lighting_sequence
    start_time,         \* local start_time of led_controller_thread
    target_time,        \* local target_time
    current_time,       \* local current_time
    now,                \* time.time(), in ms
    log,                \* every send call made on self.master.mav, in call order
    sending,            \* the flows that are inside a send call
    nfail,              \* send calls that have raised
    waits,              \* per event reached: target_time, current_time, sleep asked
    cancel_requested,   \* an external abort of the show has been requested
    d_args,             \* arguments of a direct control_rgb_leds call
    d_pc,               \* position of that call
    d_sent,             \* the servo commands that call has sent
    recalls,            \* calls of execute_show made after the first has returned
    t2                  \* the LED thread started by such a call: its position and locals

vars == <<mission_file, use_interpolation, current_mission, orch_pc, orch_exc,
          wp_i, sched_pc, sched_exc, ev_i, start_time, target_time,
          current_time, now, log, sending, nfail, waits, cancel_requested,
          d_args, d_pc, d_sent, recalls, t2>>

showVars == <<mission_file, use_interpolation, current_mission, orch_pc,
              orch_exc, wp_i, sched_pc, sched_exc, ev_i, start_time,
              target_time, current_time, now, log, sending, nfail, waits,
              cancel_requested>>

directVars == <<d_args, d_pc, d_sent>>

secondVars == <<recalls, t2>>

(***************************************************************************)
(* The data of a mission file.                                             *)
(***************************************************************************)
Rgb(r, g, b) == [r |-> r, g |-> g, b |-> b]

Frac(n, d) == [num |-> n, den |-> d]

Waypoint(lat, lon, alt) == [latitude |-> lat, longitude |-> lon, altitude |-> alt]

LightCmd(ts, rgb, brightness) ==
    [timestamp |-> ts, color |-> [rgb |-> rgb, brightness |-> brightness]]

\* The waypoint a mission file holds at position i (all different).
Route(i) == Waypoint(10 + i, 20 + i, 5 * i)

WaypointLists == { [i \in 1..n |-> Route(i)] : n \in 0..MaxWaypoints }

\* The light commands a mission file may hold: the two of the end-to-end
\* scenario, and one between them whose brightness and RGB components are
\* outside their declared ranges.
LightCmds ==
    { LightCmd(0, Rgb(255, 0, 0), Frac(1, 1)),
      LightCmd(500, Rgb(0, 255, 0), Frac(1, 2)),
      LightCmd(250, Rgb(256, -1, 255), Frac(3, 2)) }

RECURSIVE SeqsUpTo(_, _)
SeqsUpTo(S, n) ==
    IF n = 0 THEN { <<>> }
    ELSE LET shorter == SeqsUpTo(S, n - 1)
         IN  shorter \cup { Append(q, x) : q \in { t \in shorter : Len(t) = n - 1 }, x \in S }

Timelines == SeqsUpTo(LightCmds, MaxEvents)

\* A mission file: json.load gives a dict; keys is the set of its optional
\* keys that are present.  lightingSequence is <<>> when its key is absent.
MissionFiles ==
    { [waypoints |-> w, keys |-> k, lightingSequence |-> l] :
        w \in WaypointLists,
        k \in { {"lightingSequence"}, {"lightingSequence", "colorInterpolation"} },
        l \in Timelines }
    \cup
    { [waypoints |-> w, keys |-> k, lightingSequence |-> <<>>] :
        w \in WaypointLists, k \in { {}, {"colorInterpolation"} } }

NoMission == [waypoints |-> <<>>, keys |-> {}, lightingSequence |-> <<>>]

(***************************************************************************)
(* control_rgb_leds: the color-to-PWM mapping.                             *)
(***************************************************************************)
\* A variant that rounds to the nearest integer, as round() would.
IntOf_round(n, d) == (2 * n + d) \div (2 * d)

\* Python's int() of the rational n/d (d > 0): truncation toward zero.
IntOf(n, d) == IF n >= 0 THEN n \div d ELSE -((-n) \div d)

\* red_pwm = int(rgb['r'] * brightness), likewise green and blue.
Pwm(c, brightness) == IntOf(c * brightness.num, brightness.den)

\* red_pwm * 4 + 1000
ControlValue(c, brightness) == Pwm(c, brightness) * PwmScale + PwmOffset

Channels == <<ServoRed, ServoGreen, ServoBlue>>

ChannelLevel(rgb, ch) ==
    IF ch = ServoRed THEN rgb.r ELSE IF ch = ServoGreen THEN rgb.g ELSE rgb.b

(***************************************************************************)
(* The messages sent on self.master.mav.  t is the time at which a servo    *)
(* command is sent (0 in the other messages, whose time nothing reads).    *)
(***************************************************************************)
Msg(name, p1, p2, wp, t) == [msg |-> name, p1 |-> p1, p2 |-> p2, wp |-> wp, t |-> t]

NoWaypoint == Waypoint(0, 0, 0)

\* mission_clear_all_send(target_system, target_component)
ClearAllMsg == Msg("MISSION_CLEAR_ALL", 0, 0, NoWaypoint, 0)

\* A variant that numbers the mission items from 1.
MissionItemMsg_oneBased(i, wp) == Msg("MISSION_ITEM", i + 1, 0, wp, 0)

\* mission_item_send(..., i, ..., wp['latitude'], wp['longitude'], wp['altitude'])
MissionItemMsg(i, wp) == Msg("MISSION_ITEM", i, 0, wp, 0)

\* command_long_send(..., MAV_CMD_DO_SET_SERVO, 0, servo, pwm, 0, 0, 0, 0, 0)
ServoMsg(ch, rgb, brightness, t) ==
    Msg("DO_SET_SERVO", ch, ControlValue(ChannelLevel(rgb, ch), brightness), NoWaypoint, t)

\* command_long_send(..., MAV_CMD_MISSION_START, 0, 0, 0, 0, 0, 0, 0, 0)
MissionStartMsg == Msg("MISSION_START", 0, 0, NoWaypoint, 0)

\* How a send call ends: it returns, or it raises a transient or a fatal error.
Outcomes == {"ok", "transient", "fatal"}


(***************************************************************************)
(* The state after DroneLightShow(...) is constructed, with the call       *)
(* execute_show(mission_file, use_interpolation) about to be made.         *)
(***************************************************************************)
InitDirect ==
    /\ d_args = [rgb |-> Rgb(0, 0, 0), brightness |-> Frac(0, 1)]
    /\ d_pc = "idle"
    /\ d_sent = <<>>

\* No second call of execute_show has been made, and no second LED thread
\* exists.
NoThread == [pc |-> "unstarted", ev_i |-> 1, start_time |-> 0,
             target_time |-> 0, current_time |-> 0]

InitSecond ==
    /\ recalls = 0
    /\ t2 = NoThread

InitShow ==
    /\ current_mission = NoMission
    /\ orch_pc = "idle"
    /\ orch_exc = "none"
    /\ wp_i = 0
    /\ sched_pc = "unstarted"
    /\ sched_exc = "none"
    /\ ev_i = 1
    /\ start_time = 0
    /\ target_time = 0
    /\ current_time = 0
    /\ now = TickMs
    /\ log = <<>>
    /\ sending = {}
    /\ nfail = 0
    /\ waits = <<>>
    /\ cancel_requested = FALSE

Init ==
    /\ mission_file \in MissionFiles
    /\ use_interpolation \in BOOLEAN
    /\ InitShow
    /\ InitDirect
    /\ InitSecond

(***************************************************************************)
(* The transport: a send call begins (the message goes out) and later      *)
(* returns or raises.  Nothing keeps two flows from being inside a send    *)
(* at once.                                                                *)
(***************************************************************************)
\* A variant with a lock on the transport: a flow waits while another flow
\* is inside a send.
SendBegin_locked(flow, m) ==
    /\ sending = {}
    /\ sending' = sending \cup {flow}
    /\ log' = Append(log, m)

SendBegin(flow, m) ==
    /\ flow \notin sending
    /\ sending' = sending \cup {flow}
    /\ log' = Append(log, m)

SendEnd(flow, outcome) ==
    /\ flow \in sending
    /\ sending' = sending \ {flow}
    /\ IF outcome = "ok"
       THEN nfail' = nfail
       ELSE nfail < MaxFailures /\ nfail' = nfail + 1

(***************************************************************************)
(* execute_show, the orchestrator flow.                                    *)
(***************************************************************************)
\* with open(mission_file) ...: mission = json.load(f); self.current_mission = mission
ExecuteShow ==
    /\ orch_pc = "idle"
    /\ current_mission' = mission_file
    /\ orch_pc' = "clear"
    /\ UNCHANGED <<mission_file, use_interpolation, orch_exc, wp_i, sched_pc,
                   sched_exc, ev_i, start_time, target_time, current_time, now,
                   log, sending, nfail, waits, cancel_requested, directVars, secondVars>>

\* An exception leaves execute_show (and upload_mission) at once.
OrchRaise(exc) ==
    /\ orch_pc' = "raised"
    /\ orch_exc' = exc

\* upload_mission: self.master.mav.mission_clear_all_send(...)
ClearAllSend ==
    /\ orch_pc = "clear"
    /\ SendBegin("orch", ClearAllMsg)
    /\ UNCHANGED <<mission_file, use_interpolation, current_mission, orch_pc,
                   orch_exc, wp_i, sched_pc, sched_exc, ev_i, start_time,
                   target_time, current_time, now, nfail, waits,
                   cancel_requested, directVars, secondVars>>

ClearAllReturn(outcome) ==
    /\ orch_pc = "clear"
    /\ SendEnd("orch", outcome)
    /\ IF outcome = "ok"
       THEN /\ orch_pc' = IF Len(current_mission.waypoints) > 0 THEN "item" ELSE "thread"
            /\ orch_exc' = orch_exc
       ELSE OrchRaise(outcome)
    /\ wp_i' = 0
    /\ UNCHANGED <<mission_file, use_interpolation, current_mission, sched_pc,
                   sched_exc, ev_i, start_time, target_time, current_time, now,
                   log, waits, cancel_requested, directVars, secondVars>>

\* upload_mission: for i, wp in enumerate(waypoints): mission_item_send(..., i, ..., wp)
MissionItemSend ==
    /\ orch_pc = "item"
    /\ SendBegin("orch", MissionItemMsg(wp_i, current_mission.waypoints[wp_i + 1]))
    /\ UNCHANGED <<mission_file, use_interpolation, current_mission, orch_pc,
                   orch_exc, wp_i, sched_pc, sched_exc, ev_i, start_time,
                   target_time, current_time, now, nfail, waits,
                   cancel_requested, directVars, secondVars>>

MissionItemReturn(outcome) ==
    /\ orch_pc = "item"
    /\ SendEnd("orch", outcome)
    /\ IF outcome = "ok"
       THEN /\ wp_i' = wp_i + 1
            /\ orch_pc' = IF wp_i + 1 < Len(current_mission.waypoints) THEN "item" ELSE "thread"
            /\ orch_exc' = orch_exc
       ELSE /\ wp_i' = wp_i
            /\ OrchRaise(outcome)
    /\ UNCHANGED <<mission_file, use_interpolation, current_mission, sched_pc,
                   sched_exc, ev_i, start_time, target_time, current_time, now,
                   log, waits, cancel_requested, directVars, secondVars>>

\* A variant that starts the LED thread before the mission is uploaded.
AtThreadStart_early == orch_pc \in {"clear", "thread"} /\ "orch" \notin sending

\* The guard of StartLedThread: upload_mission has returned.
AtThreadStart == orch_pc = "thread"

\* if use_interpolation and 'colorInterpolation' in mission:
\*     Thread(target=self.led_interpolation_thread, ...)   -- no such attribute
\* else: Thread(target=self.led_controller_thread, args=(mission['lightingSequence'],))
\* led_thread.daemon = True; led_thread.start()
StartLedThread ==
    /\ AtThreadStart
    /\ recalls = 0
    /\ IF use_interpolation /\ "colorInterpolation" \in current_mission.keys
       THEN OrchRaise("AttributeError") /\ sched_pc' = sched_pc
       ELSE IF "lightingSequence" \notin current_mission.keys
       THEN OrchRaise("KeyError") /\ sched_pc' = sched_pc
       ELSE /\ orch_pc' = "mission_start"
            /\ orch_exc' = orch_exc
            /\ sched_pc' = "init"
    /\ UNCHANGED <<mission_file, use_interpolation, current_mission, wp_i,
                   sched_exc, ev_i, start_time, target_time, current_time, now,
                   log, sending, nfail, waits, cancel_requested, directVars, secondVars>>

\* self.master.mav.command_long_send(..., MAV_CMD_MISSION_START, ...)
MissionStartSend ==
    /\ orch_pc = "mission_start"
    /\ SendBegin("orch", MissionStartMsg)
    /\ UNCHANGED <<mission_file, use_interpolation, current_mission, orch_pc,
                   orch_exc, wp_i, sched_pc, sched_exc, ev_i, start_time,
                   target_time, current_time, now, nfail, waits,
                   cancel_requested, directVars, secondVars>>

\* ... print(...); return led_thread
MissionStartReturn(outcome) ==
    /\ orch_pc = "mission_start"
    /\ SendEnd("orch", outcome)
    /\ IF outcome = "ok"
       THEN orch_pc' = "returned" /\ orch_exc' = orch_exc
       ELSE OrchRaise(outcome)
    /\ UNCHANGED <<mission_file, use_interpolation, current_mission, wp_i,
                   sched_pc, sched_exc, ev_i, start_time, target_time,
                   current_time, now, log, waits, cancel_requested, directVars, secondVars>>


(***************************************************************************)
(* led_controller_thread, the scheduler flow.                              *)
(***************************************************************************)
LightingSequence == current_mission.lightingSequence

\* start_time = time.time()
SchedStart ==
    /\ sched_pc = "init"
    /\ start_time' = now
    /\ ev_i' = 1
    /\ sched_pc' = "loop"
    /\ UNCHANGED <<mission_file, use_interpolation, current_mission, orch_pc,
                   orch_exc, wp_i, sched_exc, target_time, current_time, now,
                   log, sending, nfail, waits, cancel_requested, directVars, secondVars>>

\* A variant that takes the timestamp as an absolute time.
TargetTime_absolute(start, light_cmd) == light_cmd.timestamp

\* A variant that takes the epoch anew at each event.
TargetTime_fromNow(start, light_cmd) == now + light_cmd.timestamp

\* target_time = start_time + (light_cmd['timestamp'] / 1000.0), here in ms
TargetTime(start, light_cmd) == start + light_cmd.timestamp

\* A variant that sleeps one clock tick when the target has passed.
SleepFor_atLeastTick(target, current) ==
    IF target > current THEN target - current ELSE TickMs

\* A variant that sleeps half of the time that remains.
SleepFor_half(target, current) ==
    IF target > current THEN (target - current) \div 2 ELSE 0

\* A variant without the `if`: the sleep is asked for even when the target
\* has passed.
SleepFor_unguarded(target, current) == target - current

\* if target_time > current_time: time.sleep(target_time - current_time)
\* The time to sleep; 0 stands for no call of time.sleep.
SleepFor(target, current) == IF target > current THEN target - current ELSE 0

\* One turn of `for light_cmd in lighting_sequence`, up to the sleep or the
\* first send; the loop ends when the sequence is exhausted.
\* (time.sleep raises ValueError for a negative time; the `if` of the source
\* never asks for one.)
SchedNext ==
    /\ sched_pc = "loop"
    /\ IF ev_i > Len(LightingSequence)
       THEN /\ sched_pc' = "done"
            /\ UNCHANGED <<target_time, current_time, waits>>
       ELSE LET target == TargetTime(start_time, LightingSequence[ev_i])
                dur == SleepFor(target, now)
            IN  /\ target_time' = target
                /\ current_time' = now
                /\ waits' = Append(waits, [target |-> target, current |-> now, dur |-> dur])
                /\ sched_pc' = IF dur > 0 THEN "sleep" ELSE IF dur < 0 THEN "dead" ELSE "red"
    /\ sched_exc' = IF sched_pc' = "dead" THEN "ValueError" ELSE sched_exc
    /\ UNCHANGED <<mission_file, use_interpolation, current_mission, orch_pc,
                   orch_exc, wp_i, ev_i, start_time, now, log,
                   sending, nfail, cancel_requested, directVars, secondVars>>

\* The time at which time.sleep(target_time - current_time) may return.
WakeTime == current_time + SleepFor(target_time, current_time)

\* time.sleep returns, no earlier than asked.
SchedWake ==
    /\ sched_pc = "sleep"
    /\ now >= WakeTime
    /\ sched_pc' = "red"
    /\ UNCHANGED <<mission_file, use_interpolation, current_mission, orch_pc,
                   orch_exc, wp_i, sched_exc, ev_i, start_time, target_time,
                   current_time, now, log, sending, nfail, waits,
                   cancel_requested, directVars, secondVars>>

ServoPcs == {"red", "green", "blue"}

ChannelOf(pc) ==
    IF pc = "red" THEN ServoRed ELSE IF pc = "green" THEN ServoGreen ELSE ServoBlue

\* control_rgb_leds sends red, then green, then blue, then returns to the loop.
AfterServo(pc) ==
    IF pc = "red" THEN "green" ELSE IF pc = "green" THEN "blue" ELSE "loop"

\* A variant that skips every other event.
NextEvent_skip(i) == i + 2

\* The for loop takes the next light_cmd of lighting_sequence.
NextEvent(i) == i + 1

\* control_rgb_leds: self.master.mav.command_long_send(..., MAV_CMD_DO_SET_SERVO, ...)
ServoSend ==
    /\ sched_pc \in ServoPcs
    /\ LET color == LightingSequence[ev_i].color
       IN  SendBegin("sched", ServoMsg(ChannelOf(sched_pc), color.rgb, color.brightness, now))
    /\ UNCHANGED <<mission_file, use_interpolation, current_mission, orch_pc,
                   orch_exc, wp_i, sched_pc, sched_exc, ev_i, start_time,
                   target_time, current_time, now, nfail, waits,
                   cancel_requested, directVars, secondVars>>

\* The send returns; or it raises, and the exception, caught nowhere, ends
\* the thread.
ServoReturn(outcome) ==
    /\ sched_pc \in ServoPcs
    /\ SendEnd("sched", outcome)
    /\ IF outcome = "ok"
       THEN /\ sched_pc' = AfterServo(sched_pc)
            /\ ev_i' = IF AfterServo(sched_pc) = "loop" THEN NextEvent(ev_i) ELSE ev_i
            /\ sched_exc' = sched_exc
       ELSE /\ sched_pc' = "dead"
            /\ ev_i' = ev_i
            /\ sched_exc' = outcome
    /\ UNCHANGED <<mission_file, use_interpolation, current_mission, orch_pc,
                   orch_exc, wp_i, start_time, target_time, current_time, now,
                   log, waits, cancel_requested, directVars, secondVars>>

(***************************************************************************)
(* The environment: the clock, and a request to abort the show.            *)
(***************************************************************************)
\* The positions from which the LED thread next compares the clock with a
\* target time.
ClockRead == {"loop", "sleep"}

\* time.time() advances.  Only the LED thread reads the clock, and only the
\* time since start_time matters to it, so the time that passes elsewhere
\* is taken when the thread is about to compare the clock with a target:
\* the time t recorded in a servo command is then the least it can be.
Tick ==
    /\ sched_pc \in ClockRead
    /\ \/ now + TickMs <= MaxTime
       \/ sched_pc = "sleep" /\ now < WakeTime
    /\ now' = now + TickMs
    /\ UNCHANGED <<mission_file, use_interpolation, current_mission, orch_pc,
                   orch_exc, wp_i, sched_pc, sched_exc, ev_i, start_time,
                   target_time, current_time, log, sending, nfail, waits,
                   cancel_requested, directVars, secondVars>>

\* The show is aborted from outside while the LED thread is between two
\* events (before one, at the loop head or asleep).  The class
\* has no method, flag or event for it: nothing reads cancel_requested.
CancelRequest ==
    /\ sched_pc \in ClockRead
    /\ ~cancel_requested
    /\ cancel_requested' = TRUE
    /\ UNCHANGED <<mission_file, use_interpolation, current_mission, orch_pc,
                   orch_exc, wp_i, sched_pc, sched_exc, ev_i, start_time,
                   target_time, current_time, now, log, sending, nfail, waits,
                   directVars, secondVars>>

Next ==
    \/ ExecuteShow
    \/ ClearAllSend
    \/ \E o \in Outcomes : ClearAllReturn(o)
    \/ MissionItemSend
    \/ \E o \in Outcomes : MissionItemReturn(o)
    \/ StartLedThread
    \/ MissionStartSend
    \/ \E o \in Outcomes : MissionStartReturn(o)
    \/ SchedStart
    \/ SchedNext
    \/ SchedWake
    \/ ServoSend
    \/ \E o \in Outcomes : ServoReturn(o)
    \/ Tick
    \/ CancelRequest

Spec == Init /\ [][Next]_vars

(***************************************************************************)
(* control_rgb_leds called on its own, over a sweep of its arguments.      *)
(***************************************************************************)
Levels == 0..255

\* One channel sweeps 0..255 while the other two are dark or full.
SweptRgbs ==
    { Rgb(c, x, y) : c \in Levels, x \in {0, 255}, y \in {0, 255} }
    \cup { Rgb(x, c, y) : c \in Levels, x \in {0, 255}, y \in {0, 255} }
    \cup { Rgb(x, y, c) : c \in Levels, x \in {0, 255}, y \in {0, 255} }

\* The brightnesses n/d in [0, 1] with d up to MaxDen.
SweptBrightness == { f \in { Frac(n, d) : n \in 0..MaxDen, d \in 1..MaxDen } : f.num <= f.den }

InitMap ==
    /\ mission_file = NoMission
    /\ use_interpolation = FALSE
    /\ InitShow
    /\ d_args \in { [rgb |-> c, brightness |-> f] :
                      c \in SweptRgbs,
                      f \in SweptBrightness }
    /\ d_pc = "red"
    /\ d_sent = <<>>
    /\ InitSecond

\* One command_long_send of control_rgb_leds(rgb, brightness).
DirectServo ==
    /\ d_pc \in ServoPcs
    /\ d_sent' = Append(d_sent, ServoMsg(ChannelOf(d_pc), d_args.rgb, d_args.brightness, 0))
    /\ d_pc' = IF AfterServo(d_pc) = "loop" THEN "returned" ELSE AfterServo(d_pc)
    /\ UNCHANGED <<d_args, showVars, secondVars>>

NextMap == DirectServo

SpecMap == InitMap /\ [][NextMap]_vars


(***************************************************************************)
(* What the claims speak of.                                               *)
(***************************************************************************)
IsServo(m) == m.msg = "DO_SET_SERVO"

\* The actuations sent so far, in the order of their send calls.
ServoLog == SelectSeq(log, IsServo)

\* The LED thread has ended: the loop is exhausted, or an exception ended it.
SchedEnded == sched_pc \in {"done", "dead"}

\* The event and the channel the k-th actuation of a run belongs to when
\* every event takes exactly three actuations.
EventOf(k) == ((k - 1) \div 3) + 1

ChannelAt(k) == Channels[((k - 1) % 3) + 1]

(***************************************************************************)
(* C1.  When no send fails, led_controller_thread performs exactly one     *)
(* dispatch per event of the lighting sequence (one actuation for each of  *)
(* red, green and blue), the i-th dispatch carries the color and the       *)
(* brightness of the i-th event, and no event is skipped, repeated,        *)
(* reordered or merged: at every moment the actuations sent are a prefix   *)
(* of the expected ones, the thread is never ahead of or behind its event  *)
(* index, and a thread that ended without a failure has sent all 3n.       *)
(***************************************************************************)
C1_DispatchInOrder ==
    LET sent == ServoLog
        n == Len(LightingSequence)
    IN  /\ sched_pc = "unstarted" => sent = <<>>
        /\ Len(sent) <= 3 * n
        /\ \A k \in 1..Len(sent) :
             LET color == LightingSequence[EventOf(k)].color
             IN  /\ sent[k].p1 = ChannelAt(k)
                 /\ sent[k].p2 = ControlValue(ChannelLevel(color.rgb, ChannelAt(k)),
                                              color.brightness)
        /\ (sched_pc \in {"loop", "sleep"} /\ ev_i <= n + 1) => Len(sent) = 3 * (ev_i - 1)
        /\ (SchedEnded /\ sched_exc = "none") => Len(sent) = 3 * n

C1_Witness ==
    /\ sched_pc = "done"
    /\ sched_exc = "none"
    /\ Len(LightingSequence) = 2
    /\ LightingSequence[1] # LightingSequence[2]
    /\ Len(ServoLog) = 6

(***************************************************************************)
(* C2.  End-to-end scenario: for the timeline [{0 ms, rgb(255,0,0), 1.0},  *)
(* {500 ms, rgb(0,255,0), 0.5}] and start epoch T0 = start_time, the       *)
(* actuations are, in this order, (9, 2020), (10, 1000), (11, 1000),       *)
(* (9, 1000), (10, 1508), (11, 1000); the first three are sent no earlier  *)
(* than T0, the last three no earlier than T0 + 500 ms; and a run in which *)
(* no send fails issues exactly these six.                                 *)
(***************************************************************************)
Scenario ==
    << LightCmd(0, Rgb(255, 0, 0), Frac(1, 1)),
       LightCmd(500, Rgb(0, 255, 0), Frac(1, 2)) >>

ScenarioCalls ==
    << <<9, 2020>>, <<10, 1000>>, <<11, 1000>>,
       <<9, 1000>>, <<10, 1508>>, <<11, 1000>> >>

PastDue(w) == w.target <= w.current

C4_PastDueNoSleep ==
    /\ \A i \in 1..Len(waits) :
         PastDue(waits[i]) =>
           /\ waits[i].dur = 0
           /\ \/ i = ev_i /\ sched_pc = "red" /\ Len(ServoLog) = 3 * (i - 1)
              \/ /\ Len(ServoLog) >= 3 * (i - 1) + 1
                 /\ ServoLog[3 * (i - 1) + 1].t = waits[i].current
           /\ (SchedEnded /\ sched_exc = "none") => Len(ServoLog) >= 3 * i
    /\ (SchedEnded /\ sched_exc = "none") => Len(waits) = Len(LightingSequence)

C4_Witness ==
    \E i \in 1..Len(waits) :
        /\ waits[i].target < waits[i].current
        /\ i < Len(LightingSequence)
        /\ sched_pc = "done"
        /\ Len(ServoLog) = 3 * Len(LightingSequence)


(***************************************************************************)
(* C5.  A transient failure of a send while event k is dispatched does     *)
(* not prevent the dispatch of event k+1: when the LED thread has ended    *)
(* after a transient failure, every event after the one that failed has    *)
(* been dispatched.  (The code ends the thread at the failure.)            *)
(***************************************************************************)
C5_TransientIsolated ==
    (SchedEnded /\ sched_exc = "transient") =>
        \A i \in (ev_i + 1)..Len(LightingSequence) :
            Len(ServoLog) >= 3 * (i - 1) + 1

(***************************************************************************)
(* C6.  A fatal failure of a send while event k is dispatched stops the    *)
(* scheduler, and its termination is reported to the orchestrator: when    *)
(* the LED thread has been ended by a fatal failure, the orchestrator      *)
(* flow holds that failure.  (The code stops, but tells the orchestrator   *)
(* flow nothing: see C6_FatalStops for the part that holds.)               *)
(***************************************************************************)
C6_FatalReported ==
    (sched_pc = "dead" /\ sched_exc = "fatal") => orch_exc = "fatal"

\* The part of C6 the code keeps: a thread ended by a failure sends no
\* further actuation, begins no wait and never runs again.
C6_FatalStops ==
    [][sched_pc = "dead" =>
          /\ sched_pc' = "dead"
          /\ ServoLog' = ServoLog
          /\ ev_i' = ev_i
          /\ "sched" \notin sending']_vars

(***************************************************************************)
(* C7.  Once the scheduler has been cancelled between two events, it       *)
(* begins no new wait and sends no further actuation.  (The code has no    *)
(* way to cancel the LED thread.)                                          *)
(***************************************************************************)
C7_CancelStopsDispatch ==
    [][cancel_requested =>
          /\ Len(ServoLog') = Len(ServoLog)
          /\ (sched_pc' = "sleep" => sched_pc = "sleep")]_vars

(***************************************************************************)
(* C8.  Send calls on the shared transport are mutually exclusive: at      *)
(* most one flow is inside a send at any time.  (The code takes no lock.)  *)
(***************************************************************************)
C8_SendsExclusive == Cardinality(sending) <= 1

(***************************************************************************)
(* C9.  In every run of execute_show the mission upload (the clear and     *)
(* every waypoint send) completes, then the LED thread is started, then    *)
(* the mission-start command is sent: once the thread is started the log   *)
(* begins with the clear and the n waypoint items and every one of those   *)
(* sends has returned; no actuation and no mission-start precedes the      *)
(* last waypoint item; and the thread has been started when the            *)
(* mission-start command is sent.                                          *)
(***************************************************************************)
UploadSent ==
    LET wps == current_mission.waypoints
    IN  /\ Len(log) >= Len(wps) + 1
        /\ log[1] = ClearAllMsg
        /\ \A i \in 1..Len(wps) : log[i + 1] = MissionItemMsg(i - 1, wps[i])

C9_UploadThreadStart ==
    LET n == Len(current_mission.waypoints)
        uploaded == UploadSent
    IN  /\ sched_pc # "unstarted" =>
              /\ uploaded
              /\ orch_pc \in {"mission_start", "returned", "raised"}
        /\ \A k \in 1..Len(log) :
              /\ log[k].msg \in {"DO_SET_SERVO", "MISSION_START"} =>
                    /\ k > n + 1
                    /\ uploaded
                    /\ sched_pc # "unstarted"
              /\ log[k].msg \in {"MISSION_CLEAR_ALL", "MISSION_ITEM"} => k <= n + 1

C9_Witness ==
    /\ Len(current_mission.waypoints) = 2
    /\ \E k \in 1..Len(log) : log[k].msg = "MISSION_START"
    /\ \E k \in 1..Len(log) : log[k].msg = "DO_SET_SERVO"
    /\ orch_pc = "returned"

(***************************************************************************)
(* C10.  A data error in the show descriptor (a brightness outside [0,1],  *)
(* an RGB component outside 0..255, an empty waypoint list, a missing      *)
(* lighting program) is detected before any dispatch: execute_show sends   *)
(* no command, starts no LED thread and does not return normally.  (The    *)
(* code validates nothing.)                                                *)
(***************************************************************************)
InRange(cmd) ==
    LET c == cmd.color
    IN  /\ c.brightness.num >= 0
        /\ c.brightness.num <= c.brightness.den
        /\ c.rgb.r \in 0..255
        /\ c.rgb.g \in 0..255
        /\ c.rgb.b \in 0..255

DataError(m) ==
    \/ m.waypoints = <<>>
    \/ m.keys = {}
    \/ \E i \in 1..Len(m.lightingSequence) : ~InRange(m.lightingSequence[i])

C10_DataErrorRejected ==
    DataError(mission_file) =>
        /\ log = <<>>
        /\ sched_pc = "unstarted"
        /\ orch_pc # "returned"


(***************************************************************************)
(* C11.  When the interpolation variant is selected (use_interpolation is  *)
(* true and the mission has colorInterpolation), a scheduler flow is       *)
(* started and the mission-start command is then sent: execute_show does   *)
(* not end by raising, and once it has ended the LED thread has been       *)
(* started and MISSION_START is in the log.  (The code names a method,     *)
(* led_interpolation_thread, that the class does not have.)                *)
(***************************************************************************)
InterpolationSelected ==
    use_interpolation /\ "colorInterpolation" \in mission_file.keys

HasMsg(name) == \E k \in 1..Len(log) : log[k].msg = name

C11_InterpolationStarts ==
    (InterpolationSelected /\ nfail = 0 /\ orch_pc \in {"returned", "raised"}) =>
        /\ orch_pc = "returned"
        /\ sched_pc # "unstarted"
        /\ HasMsg("MISSION_START")

(***************************************************************************)
(* C12.  The scheduler dispatches events in ascending timestamp order      *)
(* whatever the order of the input lighting sequence: the timestamps of    *)
(* successive dispatches never decrease.  (The code takes the events in    *)
(* input order and sorts nothing.)                                         *)
(***************************************************************************)
\* The timestamp of the event whose dispatch sent the k-th actuation.
DispatchedTimestamp(k) == LightingSequence[EventOf(k)].timestamp

C12_TimestampOrder ==
    \A j, k \in 1..Len(ServoLog) :
        j <= k => DispatchedTimestamp(j) <= DispatchedTimestamp(k)

(***************************************************************************)
(* C13.  For every channel value in 0..255 and every brightness in [0,1],  *)
(* the control value sent to a servo output lies in the hardware control   *)
(* range 1000..2000.  (Checked under SpecMap; the code sends up to 2020.)  *)
(***************************************************************************)
C13_HardwareRange ==
    \A k \in 1..Len(d_sent) : d_sent[k].p2 \in 1000..2000


(***************************************************************************)
(* C14.  No event is dispatched early: every actuation of an event is      *)
(* sent at a time at or after start_time + timestamp; when that target is  *)
(* in the future the thread makes one sleep of exactly target_time -       *)
(* current_time (one wait decision per event, no polling loop), and it     *)
(* leaves the sleep only when the clock has reached the target.            *)
(***************************************************************************)
C14_NoEarlyDispatch ==
    /\ LET sent == ServoLog
       IN  \A k \in 1..Len(sent) :
               sent[k].t >= start_time + DispatchedTimestamp(k)
    /\ \A i \in 1..Len(waits) :
          waits[i].target > waits[i].current =>
              waits[i].dur = waits[i].target - waits[i].current
    /\ sched_pc \in {"sleep"} \cup ServoPcs => Len(waits) = ev_i
    /\ sched_pc = "loop" => Len(waits) = ev_i - 1
    /\ sched_pc \in ServoPcs => now >= target_time

C14_Witness ==
    \E i \in 1..Len(waits) :
        /\ waits[i].dur = 500
        /\ Len(ServoLog) >= 3 * i
        /\ ServoLog[3 * (i - 1) + 1].t >= waits[i].target
        /\ sched_pc = "done"


(***************************************************************************)
(* execute_show up to the start of the LED thread, over waypoint lists in  *)
(* any order: upload_mission on its own.                                   *)
(***************************************************************************)
UploadWaypoints == { Route(i) : i \in 1..(MaxWaypoints + 1) }

InitUpload ==
    /\ mission_file \in
          { [waypoints |-> w, keys |-> {"lightingSequence"}, lightingSequence |-> <<>>] :
              w \in SeqsUpTo(UploadWaypoints, MaxWaypoints) }
    /\ use_interpolation = FALSE
    /\ InitShow
    /\ InitDirect
    /\ InitSecond

NextUpload ==
    \/ ExecuteShow
    \/ ClearAllSend
    \/ \E o \in Outcomes : ClearAllReturn(o)
    \/ MissionItemSend
    \/ \E o \in Outcomes : MissionItemReturn(o)
    \/ StartLedThread

SpecUpload == InitUpload /\ [][NextUpload]_vars

(***************************************************************************)
(* C15.  upload_mission sends exactly one clear-mission command first and  *)
(* then one waypoint item per input waypoint, in input order, the i-th     *)
(* item (i from 0) carrying sequence number i and the latitude, longitude  *)
(* and altitude of the i-th waypoint: the upload messages sent so far are  *)
(* always a prefix of that sequence, and all n + 1 of them have been sent  *)
(* when upload_mission has returned.  (Checked under SpecUpload.)          *)
(***************************************************************************)
IsUpload(m) == m.msg \in {"MISSION_CLEAR_ALL", "MISSION_ITEM"}

C15_UploadSequence ==
    LET up == SelectSeq(log, IsUpload)
        wps == mission_file.waypoints
    IN  /\ Len(up) <= Len(wps) + 1
        /\ \A k \in 1..Len(up) :
              IF k = 1
              THEN up[k].msg = "MISSION_CLEAR_ALL"
              ELSE /\ up[k].msg = "MISSION_ITEM"
                   /\ up[k].p1 = k - 2
                   /\ up[k].wp.latitude = wps[k - 1].latitude
                   /\ up[k].wp.longitude = wps[k - 1].longitude
                   /\ up[k].wp.altitude = wps[k - 1].altitude
        /\ orch_pc \in {"thread", "mission_start", "returned"} => Len(up) = Len(wps) + 1

C15_Witness ==
    /\ mission_file.waypoints = <<Route(2), Route(1)>>
    /\ orch_pc = "mission_start"
    /\ Len(log) = 3
    /\ log[3].p1 = 1
    /\ log[3].wp = Route(1)


(***************************************************************************)
(* C16.  The start epoch is sampled once per scheduler run, before the     *)
(* first event is processed, and never changes afterwards: the target      *)
(* time of every event reached so far is that same start_time plus the     *)
(* event's own offset, however late the event was reached, and no event    *)
(* is reached before the epoch was taken.                                  *)
(***************************************************************************)
C16_FixedEpoch ==
    /\ \A i \in 1..Len(waits) :
          /\ waits[i].target = start_time + LightingSequence[i].timestamp
          /\ waits[i].current >= start_time
    /\ sched_pc \in {"unstarted", "init"} => waits = <<>>
    /\ sched_pc \in {"sleep"} \cup ServoPcs =>
          target_time = start_time + LightingSequence[ev_i].timestamp

C16_Witness ==
    /\ Len(waits) = 2
    /\ waits[1].current = start_time
    /\ waits[2].current >= start_time + 500
    /\ waits[2].target = start_time
    /\ sched_pc = "done"


(***************************************************************************)
(* The runs in which no send fails and the show is not aborted, with the   *)
(* LED thread scheduled and the clock advancing.                           *)
(***************************************************************************)
NextLive ==
    \/ ExecuteShow
    \/ ClearAllSend
    \/ ClearAllReturn("ok")
    \/ MissionItemSend
    \/ MissionItemReturn("ok")
    \/ StartLedThread
    \/ MissionStartSend
    \/ MissionStartReturn("ok")
    \/ SchedStart
    \/ SchedNext
    \/ SchedWake
    \/ ServoSend
    \/ ServoReturn("ok")
    \/ Tick

\* A step of the LED thread.
SchedStep == SchedStart \/ SchedNext \/ SchedWake \/ ServoSend \/ ServoReturn("ok")

SpecLive == Init /\ [][NextLive]_vars /\ WF_vars(SchedStep) /\ WF_vars(Tick)

(***************************************************************************)
(* C17.  Forward progress: for every finite lighting sequence, if time     *)
(* advances and no send fails, a started LED thread eventually dispatches  *)
(* the last event and terminates, whatever the timestamps (equal, past     *)
(* due or out of order).  (Checked under SpecLive.)                        *)
(***************************************************************************)
C17_Progress ==
    (sched_pc = "init") ~>
        (sched_pc = "done" /\ Len(ServoLog) = 3 * Len(LightingSequence))

C17_Witness ==
    /\ sched_pc = "done"
    /\ Len(LightingSequence) = 2
    /\ LightingSequence[1].timestamp > LightingSequence[2].timestamp
    /\ Len(ServoLog) = 6
    /\ waits[1].dur > 0
    /\ waits[2].dur = 0


(***************************************************************************)
(* C18.  Once the LED thread is launched, neither flow waits on the        *)
(* other: whatever the LED thread is doing, execute_show can send          *)
(* MISSION_START and return; whatever execute_show is doing, the LED       *)
(* thread can take its next step (start, loop turn, wake-up once the       *)
(* target is reached, send, return from a send).  The witness is a state   *)
(* from which both orders follow: neither MISSION_START nor an actuation   *)
(* has been sent yet and both sends are enabled.                           *)
(***************************************************************************)
C18_NoMutualWait ==
    /\ (orch_pc = "mission_start" /\ "orch" \notin sending) => ENABLED MissionStartSend
    /\ (orch_pc = "mission_start" /\ "orch" \in sending) => ENABLED MissionStartReturn("ok")
    /\ sched_pc = "init" => ENABLED SchedStart
    /\ sched_pc = "loop" => ENABLED SchedNext
    /\ (sched_pc = "sleep" /\ now >= WakeTime) => ENABLED SchedWake
    /\ (sched_pc \in ServoPcs /\ "sched" \notin sending) => ENABLED ServoSend
    /\ (sched_pc \in ServoPcs /\ "sched" \in sending) => ENABLED ServoReturn("ok")

C18_Witness ==
    /\ orch_pc = "mission_start"
    /\ "orch" \notin sending
    /\ sched_pc = "red"
    /\ "sched" \notin sending
    /\ ServoLog = <<>>
    /\ ~HasMsg("MISSION_START")
    /\ ENABLED MissionStartSend
    /\ ENABLED ServoSend

\* The two orders, each reached: an actuation sent before MISSION_START, and
\* execute_show returned before any actuation was sent.
C18_ActuationFirst ==
    \E j, k \in 1..Len(log) :
        j < k /\ log[j].msg = "DO_SET_SERVO" /\ log[k].msg = "MISSION_START"

C18_StartFirst ==
    /\ orch_pc = "returned"
    /\ ServoLog = <<>>
    /\ sched_pc \in {"init", "loop", "sleep", "red"}


(***************************************************************************)
(* A second call of execute_show on the same object, with the same file,   *)
(* after the first call has returned.  Each call creates its own Thread;   *)
(* t2 holds the second thread's position and locals, and its steps are     *)
(* those of led_controller_thread.                                         *)
(***************************************************************************)
\* execute_show is called again: self.current_mission = mission
ExecuteShowAgain ==
    /\ orch_pc = "returned"
    /\ recalls = 0
    /\ recalls' = 1
    /\ current_mission' = mission_file
    /\ orch_pc' = "clear"
    /\ UNCHANGED <<mission_file, use_interpolation, orch_exc, wp_i, sched_pc,
                   sched_exc, ev_i, start_time, target_time, current_time, now,
                   log, sending, nfail, waits, cancel_requested, directVars, t2>>

\* The second call reaches led_thread.start(): a new thread, whatever the
\* thread of the first call is doing.
StartSecondLedThread ==
    /\ AtThreadStart
    /\ recalls = 1
    /\ IF use_interpolation /\ "colorInterpolation" \in current_mission.keys
       THEN OrchRaise("AttributeError") /\ t2' = t2
       ELSE IF "lightingSequence" \notin current_mission.keys
       THEN OrchRaise("KeyError") /\ t2' = t2
       ELSE /\ orch_pc' = "mission_start"
            /\ orch_exc' = orch_exc
            /\ t2' = [t2 EXCEPT !.pc = "init"]
    /\ UNCHANGED <<mission_file, use_interpolation, current_mission, wp_i,
                   sched_pc, sched_exc, ev_i, start_time, target_time,
                   current_time, now, log, sending, nfail, waits,
                   cancel_requested, directVars, recalls>>

\* start_time = time.time()
Sched2Start ==
    /\ t2.pc = "init"
    /\ t2' = [t2 EXCEPT !.pc = "loop", !.start_time = now, !.ev_i = 1]
    /\ UNCHANGED <<showVars, directVars, recalls>>

\* One turn of the for loop of the second thread.
Sched2Next ==
    /\ t2.pc = "loop"
    /\ IF t2.ev_i > Len(LightingSequence)
       THEN t2' = [t2 EXCEPT !.pc = "done"]
       ELSE LET target == TargetTime(t2.start_time, LightingSequence[t2.ev_i])
                dur == SleepFor(target, now)
            IN  t2' = [t2 EXCEPT !.target_time = target,
                                 !.current_time = now,
                                 !.pc = IF dur > 0 THEN "sleep"
                                        ELSE IF dur < 0 THEN "dead" ELSE "red"]
    /\ UNCHANGED <<showVars, directVars, recalls>>

WakeTime2 == t2.current_time + SleepFor(t2.target_time, t2.current_time)

\* time.sleep returns in the second thread.
Sched2Wake ==
    /\ t2.pc = "sleep"
    /\ now >= WakeTime2
    /\ t2' = [t2 EXCEPT !.pc = "red"]
    /\ UNCHANGED <<showVars, directVars, recalls>>

\* control_rgb_leds in the second thread: a command_long_send begins.
Servo2Send ==
    /\ t2.pc \in ServoPcs
    /\ LET color == LightingSequence[t2.ev_i].color
       IN  SendBegin("sched2", ServoMsg(ChannelOf(t2.pc), color.rgb, color.brightness, now))
    /\ UNCHANGED <<mission_file, use_interpolation, current_mission, orch_pc,
                   orch_exc, wp_i, sched_pc, sched_exc, ev_i, start_time,
                   target_time, current_time, now, nfail, waits,
                   cancel_requested, directVars, secondVars>>

\* The send returns, or it raises and ends the second thread.
Servo2Return(outcome) ==
    /\ t2.pc \in ServoPcs
    /\ SendEnd("sched2", outcome)
    /\ IF outcome = "ok"
       THEN t2' = [t2 EXCEPT !.pc = AfterServo(t2.pc),
                             !.ev_i = IF AfterServo(t2.pc) = "loop"
                                      THEN NextEvent(t2.ev_i) ELSE t2.ev_i]
       ELSE t2' = [t2 EXCEPT !.pc = "dead"]
    /\ UNCHANGED <<mission_file, use_interpolation, current_mission, orch_pc,
                   orch_exc, wp_i, sched_pc, sched_exc, ev_i, start_time,
                   target_time, current_time, now, log, waits,
                   cancel_requested, directVars, recalls>>

\* time.time() advances while the second thread is about to compare it with
\* a target.
Tick2 ==
    /\ t2.pc \in ClockRead
    /\ \/ now + TickMs <= MaxTime
       \/ t2.pc = "sleep" /\ now < WakeTime2
    /\ now' = now + TickMs
    /\ UNCHANGED <<mission_file, use_interpolation, current_mission, orch_pc,
                   orch_exc, wp_i, sched_pc, sched_exc, ev_i, start_time,
                   target_time, current_time, log, sending, nfail, waits,
                   cancel_requested, directVars, secondVars>>

\* The missions of the two-call runs: one waypoint and one light command.
InitTwo ==
    /\ mission_file \in
          { [waypoints |-> <<Route(1)>>, keys |-> {"lightingSequence"},
             lightingSequence |-> <<c>>] : c \in LightCmds }
    /\ use_interpolation = FALSE
    /\ InitShow
    /\ InitDirect
    /\ InitSecond

NextTwo ==
    \/ NextLive
    \/ ExecuteShowAgain
    \/ StartSecondLedThread
    \/ Sched2Start
    \/ Sched2Next
    \/ Sched2Wake
    \/ Servo2Send
    \/ Servo2Return("ok")
    \/ Tick2

SpecTwo == InitTwo /\ [][NextTwo]_vars

(***************************************************************************)
(* C19.  After any sequence of execute_show calls on one DroneLightShow    *)
(* object at most one Light Scheduler flow is running at any time, so the  *)
(* actuations of two shows never interleave.  (Checked under SpecTwo;      *)
(* the code starts a new thread per call and stops none.)                  *)
(***************************************************************************)
Running(pc) == pc \notin {"unstarted", "done", "dead"}

C19_OneScheduler == ~(Running(sched_pc) /\ Running(t2.pc))


====
